---------------------------- MODULE Spec2Model ----------------------------
(***************************************************************************)
(* Model of go/analysis/internal/checker/pool.go: the smartExecPool that   *)
(* builds one depth-indexed plan ("root") per root action, queues the      *)
(* plans on a buffered channel and lets a fixed set of worker goroutines   *)
(* run them, guarded by a shared sync.Map for exactly-once execution and   *)
(* by two sync.Once values for start and drain-and-close.                  *)
(***************************************************************************)
EXTENDS Integers, Sequences, FiniteSets, TLC

\* ------------------------------------------------------------------ bounds
NTasks == 3          \* actions are numbered 1..NTasks
MaxRoots == 2        \* longest list of roots handed to newSmartExecPool
MaxWorkers == 2      \* largest worker count handed to newSmartExecPool
NCallers == 2        \* threads that call SpawnWorkers / WaitAndDispose
MaxCalls == 2        \* calls of each lifecycle method that are started

Tasks == 1..NTasks
WorkerIds == 1..MaxWorkers
Callers == 1..NCallers

VARIABLES
    deps,         \* action.deps: the ordered dependency list of every action
    roots,        \* the roots handed to newSmartExecPool
    workers,      \* smartExecPool.workers
    rootObjs,     \* the *root values built by buildRoot, by index of their root
    getRoot,      \* smartExecPool.getRoot: the buffered contents of the channel
    closed,       \* whether getRoot has been closed
    executed,     \* the sync.Map values of the program, by address: the keys stored
    wg,           \* smartExecPool.wg: the WaitGroup counter
    init,         \* smartExecPool.init: [done, locked] of the sync.Once
    done,         \* smartExecPool.done: [done, locked] of the sync.Once
    wpc,          \* position of every worker goroutine
    wroot,        \* the root a worker is running (0: none)
    wpos,         \* [i, j]: depth and index in r.tree[i] the worker is at
    cpc,          \* position of every calling thread
    ci,           \* loop variable i of the closure in SpawnWorkers, per caller
    \* ---- observations of the run (written, never read by the program)
    execCount,    \* times act.execOnce() was invoked, per action
    firstClaim,   \* LoadOrStore calls that stored the key, per action
    alreadyClaimed, \* LoadOrStore calls that found the key, per action
    claimTrace,   \* per root: the <<depth, action>> of every execute() call, in order
    completed,    \* per root: times root.exec() ran to its end
    spawned,      \* go statements executed by SpawnWorkers
    closeCount,   \* close(s.getRoot) statements executed
    spawnCalls,   \* SpawnWorkers calls started
    waitCalls,    \* WaitAndDispose calls started
    spawnReturned, \* SpawnWorkers calls returned
    waitReturned, \* WaitAndDispose calls returned
    fault         \* the runtime panic that ended the program, or "none"

cfgVars == <<deps, roots, workers, rootObjs>>
poolVars == <<getRoot, closed, executed, wg, init, done>>
workerVars == <<wpc, wroot, wpos>>
callerVars == <<cpc, ci>>
obsVars == <<execCount, firstClaim, alreadyClaimed, claimTrace, completed,
             spawned, closeCount, spawnCalls, waitCalls, spawnReturned,
             waitReturned, fault>>
vars == <<cfgVars, poolVars, workerVars, callerVars, obsVars>>

\* ------------------------------------------------------------- inputs
\* All sequences without repetition over the set S.
RECURSIVE InjSeqs(_)
InjSeqs(S) ==
    {<<>>} \cup UNION {{<<x>> \o s : s \in InjSeqs(S \ {x})} : x \in S}

\* Sequences over S of length at most n.
SeqsUpTo(S, n) == UNION {[1..k -> S] : k \in 0..n}

\* Acyclic dependency lists: an action depends only on higher-numbered actions.
DepChoices == {d \in [Tasks -> InjSeqs(Tasks)] :
                  \A t \in Tasks : \A k \in 1..Len(d[t]) : d[t][k] > t}

\* ------------------------------------------------------------- buildRoot
\* A level that grows at the front instead of the back.
PrependAt(tree, depth, act) ==
    IF depth \in DOMAIN tree
    THEN [tree EXCEPT ![depth] = <<act>> \o @]
    ELSE tree @@ (depth :> <<act>>)

\* tree[depth] = append(tree[depth], act) on a Go map: a missing key reads as nil.
AppendAt(tree, depth, act) ==
    IF depth \in DOMAIN tree
    THEN [tree EXCEPT ![depth] = Append(@, act)]
    ELSE tree @@ (depth :> <<act>>)

RECURSIVE addActionsToTree(_, _, _)
addActionsToTree(depth, actions, tree) ==
    IF actions = <<>> THEN tree
    ELSE LET act == Head(actions)
             t1 == AppendAt(tree, depth, act)
             t2 == addActionsToTree(depth + 1, deps[act], t1)
         IN addActionsToTree(depth, Tail(actions), t2)

\* depth := 0; for k := range tree { if k > depth { depth = k } }
MaxKey(tree) == CHOOSE k \in DOMAIN tree \cup {0} :
                    \A m \in DOMAIN tree \cup {0} : m <= k

\* The address of the sync.Map that newSmartExecPool allocates: new(sync.Map).
PoolMap == 0

\* buildRoot with a registry of its own for every root, in place of the one
\* it is handed.
buildRootOwnMap(act, executedMap) ==
    LET t0 == AppendAt(<<>>, 0, act)
        tree == addActionsToTree(1, deps[act], t0)
    IN [maxDepth |-> MaxKey(tree), tree |-> tree, executed |-> act]

buildRoot(act, executedMap) ==
    LET t0 == AppendAt(<<>>, 0, act)
        tree == addActionsToTree(1, deps[act], t0)
    IN [maxDepth |-> MaxKey(tree), tree |-> tree, executed |-> executedMap]

\* r.tree[depth]
TreeAt(r, depth) == IF depth \in DOMAIN r.tree THEN r.tree[depth] ELSE <<>>

\* ------------------------------------------------------------- root.exec
\* The first position (i, j) at or below depth i, index j that names an action of
\* the plan, following the loops of exec and executeAt; i = -1 when exec is over.
RECURSIVE Normalize(_, _, _)
Normalize(r, i, j) ==
    IF i < 0 THEN [i |-> -1, j |-> 1]
    ELSE IF j <= Len(TreeAt(r, i)) THEN [i |-> i, j |-> j]
    ELSE Normalize(r, i - 1, 1)

\* exec() that starts at the shallowest level instead of the deepest.
FirstDepthZero(r) == 0

\* for i := r.maxDepth; i >= 0; i--
FirstDepth(r) == r.maxDepth

StartPos(r) == Normalize(r, FirstDepth(r), 1)
NextPos(r, p) == Normalize(r, p.i, p.j + 1)
ActAt(r, p) == TreeAt(r, p.i)[p.j]

\* A registry that stores the key and never reports it as loaded.
StoreOnly(m, act) == [map |-> m \cup {act}, loaded |-> FALSE]

\* sync.Map.LoadOrStore(act, struct{}{}): the map afterwards and whether the key
\* was loaded (already present).
LoadOrStore(m, act) == [map |-> m \cup {act}, loaded |-> act \in m]

\* The keys of the sync.Map at address a.
MapAt(a) == IF a \in DOMAIN executed THEN executed[a] ELSE {}

\* ------------------------------------------------------------- Init
\* A channel with room for one plan fewer than there are roots.
ChanCapOneLess(numRoots) == numRoots - 1

\* make(chan *root, numRoots): the capacity of getRoot.
ChanCap(numRoots) == numRoots

\* for _, act := range roots { pool.getRoot <- buildRoot(...) }: the plans in
\* the channel after the sends, by index of their root. A send on a full
\* channel blocks, and the constructor gets no further.
Sent(numRoots, cap) ==
    [k \in 1..(IF numRoots <= cap THEN numRoots ELSE cap) |-> k]

\* A counter that starts one too high.
InitialCountOneMore(numRoots) == numRoots + 1

\* pool.wg.Add(numRoots)
InitialCount(numRoots) == numRoots

Init ==
    /\ deps \in DepChoices
    /\ roots \in SeqsUpTo(Tasks, MaxRoots)
    /\ workers \in 0..MaxWorkers
    /\ rootObjs = [k \in 1..Len(roots) |-> buildRoot(roots[k], PoolMap)]
    /\ getRoot = Sent(Len(roots), ChanCap(Len(roots)))
    /\ closed = FALSE
    /\ executed = (PoolMap :> {})
    /\ wg = InitialCount(Len(roots))
    /\ init = [done |-> FALSE, locked |-> FALSE]
    /\ done = [done |-> FALSE, locked |-> FALSE]
    /\ wpc = [w \in WorkerIds |-> "none"]
    /\ wroot = [w \in WorkerIds |-> 0]
    /\ wpos = [w \in WorkerIds |-> [i |-> -1, j |-> 1]]
    /\ cpc = [c \in Callers |-> "idle"]
    /\ ci = [c \in Callers |-> 0]
    /\ execCount = [t \in Tasks |-> 0]
    /\ firstClaim = [t \in Tasks |-> 0]
    /\ alreadyClaimed = [t \in Tasks |-> 0]
    /\ claimTrace = [k \in 1..Len(roots) |-> <<>>]
    /\ completed = [k \in 1..Len(roots) |-> 0]
    /\ spawned = 0
    /\ closeCount = 0
    /\ spawnCalls = 0
    /\ waitCalls = 0
    /\ spawnReturned = 0
    /\ waitReturned = 0
    /\ fault = "none"


\* ------------------------------------------------------------- helpers
Bump(f, x) == [f EXCEPT ![x] = @ + 1]

\* The worker's position after the execute() call at position p has returned:
\* the next action of the plan, or the end of root.exec().
Advance(w, r) ==
    LET np == NextPos(r, wpos[w])
    IN /\ wpos' = [wpos EXCEPT ![w] = np]
       /\ wpc' = [wpc EXCEPT ![w] = IF np.i < 0 THEN "wg_done" ELSE "execute"]

\* execute() that goes on to act.execOnce() whatever LoadOrStore answered.
executeNeverReturnsEarly(res) == FALSE

\* if _, ok := r.executed.LoadOrStore(...); ok { return }
executeReturnsEarly(res) == res.loaded

\* ------------------------------------------------------------- workers
\* for root := range s.getRoot: a receive from a channel that holds a value.
WorkerRecv(w) ==
    /\ wpc[w] = "recv"
    /\ getRoot # <<>>
    /\ LET k == Head(getRoot)
           p == StartPos(rootObjs[k])
       IN /\ wroot' = [wroot EXCEPT ![w] = k]
          /\ wpos' = [wpos EXCEPT ![w] = p]
          /\ wpc' = [wpc EXCEPT ![w] = IF p.i < 0 THEN "wg_done" ELSE "execute"]
    /\ getRoot' = Tail(getRoot)
    /\ UNCHANGED <<cfgVars, closed, executed, wg, init, done, callerVars, obsVars>>

\* for root := range s.getRoot: the channel is closed and empty, the loop ends
\* and the goroutine returns.
WorkerExit(w) ==
    /\ wpc[w] = "recv"
    /\ getRoot = <<>>
    /\ closed
    /\ wpc' = [wpc EXCEPT ![w] = "exit"]
    /\ UNCHANGED <<cfgVars, poolVars, wroot, wpos, callerVars, obsVars>>

\* r.execute(act) up to the call of act.execOnce(): the claim on the registry.
Execute(w) ==
    /\ wpc[w] = "execute"
    /\ LET r == rootObjs[wroot[w]]
           act == ActAt(r, wpos[w])
           res == LoadOrStore(MapAt(r.executed), act)
       IN /\ executed' = (r.executed :> res.map) @@ executed
          /\ claimTrace' = [claimTrace EXCEPT
                               ![wroot[w]] = Append(@, <<wpos[w].i, act>>)]
          /\ IF executeReturnsEarly(res)
             THEN /\ alreadyClaimed' = IF res.loaded THEN Bump(alreadyClaimed, act)
                                       ELSE alreadyClaimed
                  /\ firstClaim' = IF res.loaded THEN firstClaim
                                   ELSE Bump(firstClaim, act)
                  /\ Advance(w, r)
                  /\ UNCHANGED execCount
             ELSE /\ alreadyClaimed' = IF res.loaded THEN Bump(alreadyClaimed, act)
                                       ELSE alreadyClaimed
                  /\ firstClaim' = IF res.loaded THEN firstClaim
                                   ELSE Bump(firstClaim, act)
                  /\ execCount' = Bump(execCount, act)
                  /\ wpc' = [wpc EXCEPT ![w] = "execOnce"]
                  /\ UNCHANGED wpos
    /\ UNCHANGED <<cfgVars, getRoot, closed, wg, init, done, wroot, callerVars,
                   completed, spawned, closeCount, spawnCalls, waitCalls,
                   spawnReturned, waitReturned, fault>>

\* act.execOnce() returns, and with it r.execute(act).
ExecOnceReturn(w) ==
    /\ wpc[w] = "execOnce"
    /\ Advance(w, rootObjs[wroot[w]])
    /\ UNCHANGED <<cfgVars, poolVars, wroot, callerVars, obsVars>>

\* root.exec() has returned; s.wg.Done(). A counter below zero panics.
WgDone(w) ==
    /\ wpc[w] = "wg_done"
    /\ completed' = Bump(completed, wroot[w])
    /\ IF wg - 1 < 0
       THEN /\ fault' = "sync: negative WaitGroup counter"
            /\ UNCHANGED wg
       ELSE /\ wg' = wg - 1
            /\ UNCHANGED fault
    /\ wpc' = [wpc EXCEPT ![w] = "recv"]
    /\ wroot' = [wroot EXCEPT ![w] = 0]
    /\ UNCHANGED <<cfgVars, getRoot, closed, executed, init, done, wpos,
                   callerVars, execCount, firstClaim, alreadyClaimed, claimTrace,
                   spawned, closeCount, spawnCalls, waitCalls, spawnReturned,
                   waitReturned>>

\* act.execOnce() panics instead of returning. Nothing in execute, exec or the
\* worker's loop recovers: the panic leaves the goroutine and ends the program.
ExecOncePanics(w) ==
    /\ wpc[w] = "execOnce"
    /\ wpc' = [wpc EXCEPT ![w] = "panicked"]
    /\ fault' = "panic in act.execOnce"
    /\ UNCHANGED <<cfgVars, poolVars, wroot, wpos, callerVars, execCount,
                   firstClaim, alreadyClaimed, claimTrace, completed, spawned,
                   closeCount, spawnCalls, waitCalls, spawnReturned,
                   waitReturned>>

WorkerStep(w) ==
    \/ WorkerRecv(w)
    \/ WorkerExit(w)
    \/ Execute(w)
    \/ ExecOnceReturn(w)
    \/ WgDone(w)

\* ------------------------------------------------------------- SpawnWorkers
\* Loop bounds that spawn one goroutine too few, one when none is asked for,
\* or one too many.
SpawnLimitOneLess(n) == n - 1
SpawnLimitAtLeastOne(n) == IF n = 0 THEN 1 ELSE n
SpawnLimitOneMore(n) == n + 1

\* for i := 0; i < s.workers; i++
SpawnLimit(n) == n

\* SpawnWorkers without the sync.Once: every call runs the loop.
SpawnWorkersNoOnce(c) ==
    /\ cpc[c] = "idle"
    /\ spawnCalls < MaxCalls
    /\ spawnCalls' = spawnCalls + 1
    /\ cpc' = [cpc EXCEPT ![c] = "spawn"]
    /\ ci' = [ci EXCEPT ![c] = 0]
    /\ UNCHANGED <<cfgVars, poolVars, workerVars, execCount, firstClaim,
                   alreadyClaimed, claimTrace, completed, spawned, closeCount,
                   waitCalls, spawnReturned, waitReturned, fault>>

\* s.init.Do(...): sync.Once's fast path returns at once when the Once is done;
\* otherwise the caller goes on to lock the Once's mutex.
SpawnWorkers(c) ==
    /\ cpc[c] = "idle"
    /\ spawnCalls < MaxCalls
    /\ spawnCalls' = spawnCalls + 1
    /\ IF init.done
       THEN /\ spawnReturned' = spawnReturned + 1
            /\ UNCHANGED cpc
       ELSE /\ cpc' = [cpc EXCEPT ![c] = "init_lock"]
            /\ UNCHANGED spawnReturned
    /\ UNCHANGED <<cfgVars, poolVars, workerVars, ci, execCount, firstClaim,
                   alreadyClaimed, claimTrace, completed, spawned, closeCount,
                   waitCalls, waitReturned, fault>>

\* sync.Once.doSlow: lock the mutex; if the Once is done by now, unlock and
\* return; otherwise run the closure with the mutex held.
InitLock(c) ==
    /\ cpc[c] = "init_lock"
    /\ ~init.locked
    /\ IF init.done
       THEN /\ cpc' = [cpc EXCEPT ![c] = "idle"]
            /\ spawnReturned' = spawnReturned + 1
            /\ UNCHANGED <<init, ci>>
       ELSE /\ init' = [init EXCEPT !.locked = TRUE]
            /\ cpc' = [cpc EXCEPT ![c] = "spawn"]
            /\ ci' = [ci EXCEPT ![c] = 0]
            /\ UNCHANGED spawnReturned
    /\ UNCHANGED <<cfgVars, getRoot, closed, executed, wg, done, workerVars,
                   execCount, firstClaim, alreadyClaimed, claimTrace, completed,
                   spawned, closeCount, spawnCalls, waitCalls, waitReturned, fault>>

\* One turn of the loop: go func() { for root := range s.getRoot ... }().
\* The new goroutine takes the first unused worker slot of the model.
SpawnOne(c) ==
    /\ cpc[c] = "spawn"
    /\ ci[c] < SpawnLimit(workers)
    /\ ci' = [ci EXCEPT ![c] = @ + 1]
    /\ spawned' = spawned + 1
    /\ LET free == {w \in WorkerIds : wpc[w] = "none"}
       IN IF free = {} THEN UNCHANGED wpc
          ELSE wpc' = [wpc EXCEPT ![CHOOSE w \in free : \A v \in free : w <= v] = "recv"]
    /\ UNCHANGED <<cfgVars, poolVars, wroot, wpos, cpc, execCount, firstClaim,
                   alreadyClaimed, claimTrace, completed, closeCount, spawnCalls,
                   waitCalls, spawnReturned, waitReturned, fault>>

\* The loop is over: the closure returns, sync.Once stores done and unlocks.
SpawnReturn(c) ==
    /\ cpc[c] = "spawn"
    /\ ~(ci[c] < SpawnLimit(workers))
    /\ init' = [done |-> TRUE, locked |-> FALSE]
    /\ cpc' = [cpc EXCEPT ![c] = "idle"]
    /\ spawnReturned' = spawnReturned + 1
    /\ UNCHANGED <<cfgVars, getRoot, closed, executed, wg, done, workerVars, ci,
                   execCount, firstClaim, alreadyClaimed, claimTrace, completed,
                   spawned, closeCount, spawnCalls, waitCalls, waitReturned, fault>>

\* ------------------------------------------------------------- WaitAndDispose
\* WaitAndDispose without the sync.Once: every call waits and closes.
WaitAndDisposeNoOnce(c) ==
    /\ cpc[c] = "idle"
    /\ waitCalls < MaxCalls
    /\ waitCalls' = waitCalls + 1
    /\ cpc' = [cpc EXCEPT ![c] = "wg_wait"]
    /\ UNCHANGED <<cfgVars, poolVars, workerVars, ci, execCount, firstClaim,
                   alreadyClaimed, claimTrace, completed, spawned, closeCount,
                   spawnCalls, spawnReturned, waitReturned, fault>>

\* s.done.Do(...): the fast path of sync.Once.
WaitAndDispose(c) ==
    /\ cpc[c] = "idle"
    /\ waitCalls < MaxCalls
    /\ waitCalls' = waitCalls + 1
    /\ IF done.done
       THEN /\ waitReturned' = waitReturned + 1
            /\ UNCHANGED cpc
       ELSE /\ cpc' = [cpc EXCEPT ![c] = "done_lock"]
            /\ UNCHANGED waitReturned
    /\ UNCHANGED <<cfgVars, poolVars, workerVars, ci, execCount, firstClaim,
                   alreadyClaimed, claimTrace, completed, spawned, closeCount,
                   spawnCalls, spawnReturned, fault>>

\* sync.Once.doSlow on s.done.
DoneLock(c) ==
    /\ cpc[c] = "done_lock"
    /\ ~done.locked
    /\ IF done.done
       THEN /\ cpc' = [cpc EXCEPT ![c] = "idle"]
            /\ waitReturned' = waitReturned + 1
            /\ UNCHANGED done
       ELSE /\ done' = [done EXCEPT !.locked = TRUE]
            /\ cpc' = [cpc EXCEPT ![c] = "wg_wait"]
            /\ UNCHANGED waitReturned
    /\ UNCHANGED <<cfgVars, getRoot, closed, executed, wg, init, workerVars, ci,
                   execCount, firstClaim, alreadyClaimed, claimTrace, completed,
                   spawned, closeCount, spawnCalls, waitCalls, spawnReturned, fault>>

\* A Wait that does not wait.
WaitNeverBlocks(n) == TRUE

\* s.wg.Wait() returns when the counter is zero.
WaitUnblocked(n) == n = 0

WgWait(c) ==
    /\ cpc[c] = "wg_wait"
    /\ WaitUnblocked(wg)
    /\ cpc' = [cpc EXCEPT ![c] = "close"]
    /\ UNCHANGED <<cfgVars, poolVars, workerVars, ci, obsVars>>

\* close(s.getRoot). Closing a closed channel panics.
CloseQueue(c) ==
    /\ cpc[c] = "close"
    /\ closeCount' = closeCount + 1
    /\ IF closed
       THEN /\ fault' = "close of closed channel"
            /\ UNCHANGED <<closed, cpc>>
       ELSE /\ closed' = TRUE
            /\ cpc' = [cpc EXCEPT ![c] = "dispose_ret"]
            /\ UNCHANGED fault
    /\ UNCHANGED <<cfgVars, getRoot, executed, wg, init, done, workerVars, ci,
                   execCount, firstClaim, alreadyClaimed, claimTrace, completed,
                   spawned, spawnCalls, waitCalls, spawnReturned, waitReturned>>

\* The closure returns, sync.Once stores done and unlocks, WaitAndDispose returns.
DisposeReturn(c) ==
    /\ cpc[c] = "dispose_ret"
    /\ done' = [done |-> TRUE, locked |-> FALSE]
    /\ cpc' = [cpc EXCEPT ![c] = "idle"]
    /\ waitReturned' = waitReturned + 1
    /\ UNCHANGED <<cfgVars, getRoot, closed, executed, wg, init, workerVars, ci,
                   execCount, firstClaim, alreadyClaimed, claimTrace, completed,
                   spawned, closeCount, spawnCalls, waitCalls, spawnReturned, fault>>

\* The steps a thread takes inside a lifecycle call it has started.
CallerStep(c) ==
    \/ InitLock(c)
    \/ SpawnOne(c)
    \/ SpawnReturn(c)
    \/ DoneLock(c)
    \/ WgWait(c)
    \/ CloseQueue(c)
    \/ DisposeReturn(c)

\* ------------------------------------------------------------- specification
\* A program that goes on running after a panic.
RunningAlways == TRUE

\* A panic ends the program.
Running == fault = "none"

Next ==
    \/ \E w \in WorkerIds : Running /\ WorkerStep(w)
    \/ \E c \in Callers : Running /\ SpawnWorkers(c)
    \/ \E c \in Callers : Running /\ WaitAndDispose(c)
    \/ \E c \in Callers : Running /\ CallerStep(c)

Spec == Init /\ [][Next]_vars

\* The run when a task's routine may panic.
FaultNext ==
    \/ Next
    \/ \E w \in WorkerIds : Running /\ ExecOncePanics(w)

FaultSpec == Init /\ [][FaultNext]_vars

\* The Go scheduler runs every runnable goroutine: each worker and each thread
\* inside a call keeps taking its steps while it is not blocked.
LiveSpec ==
    /\ Init
    /\ [][Next]_vars
    /\ \A w \in WorkerIds : WF_vars(Running /\ WorkerStep(w))
    /\ \A c \in Callers : WF_vars(Running /\ CallerStep(c))


\* ------------------------------------------------------------- vocabulary
RootSet == {roots[k] : k \in DOMAIN roots}
DepSet(t) == {deps[t][k] : k \in DOMAIN deps[t]}

\* The actions reachable from the set S along dependency lists.
RECURSIVE ReachFrom(_)
ReachFrom(S) ==
    LET n == S \cup UNION {DepSet(t) : t \in S}
    IN IF n = S THEN S ELSE ReachFrom(n)

Reachable == ReachFrom(RootSet)

\* Positions of the claim trace of root k that name action t.
AttemptsIn(k, t) == {a \in DOMAIN claimTrace[k] : claimTrace[k][a][2] = t}

RECURSIVE SumOver(_, _)
SumOver(f, S) ==
    IF S = {} THEN 0
    ELSE LET x == CHOOSE y \in S : TRUE IN f[x] + SumOver(f, S \ {x})

\* execute() calls made for action t, over all plans.
Attempts(t) ==
    SumOver([k \in DOMAIN claimTrace |-> Cardinality(AttemptsIn(k, t))],
            DOMAIN claimTrace)

\* The claim trace of root k cut down to the actions attempted at depth d.
AttemptedAt(k, d) ==
    LET atD(e) == e[1] = d
        es == SelectSeq(claimTrace[k], atD)
    IN [a \in DOMAIN es |-> es[a][2]]

WaitPcs == {"done_lock", "wg_wait", "close", "dispose_ret"}
InBody == {"wg_wait", "close", "dispose_ret"}
Busy == {"execute", "execOnce", "wg_done"}
AllCompleted == \A k \in DOMAIN completed : completed[k] = 1

\* Two different roots that both list action s as a direct dependency.
SharedDirectDep(s) ==
    /\ Len(roots) = 2
    /\ roots[1] # roots[2]
    /\ s \in DepSet(roots[1]) \cap DepSet(roots[2])

\* ------------------------------------------------------------- claims

\* C1: exactly-once execution. No action's routine is ever invoked more than
\* once, an action no root reaches is never invoked, and once SpawnWorkers has
\* been called (workers >= 1) and a WaitAndDispose call has returned, every
\* action reachable from a root has been invoked exactly once.
C1_ExactlyOnce ==
    /\ \A t \in Tasks : execCount[t] <= 1
    /\ \A t \in Tasks \ Reachable : execCount[t] = 0
    /\ (workers >= 1 /\ spawnCalls >= 1 /\ waitReturned >= 1)
           => \A t \in Reachable : execCount[t] = 1

\* C1 witness: two roots share a direct dependency, two workers ran them, the
\* drain has returned, and the shared action ran once with a failed claim on it.
C1_Witness ==
    /\ workers = 2
    /\ waitReturned >= 1
    /\ \E s \in Tasks : /\ SharedDirectDep(s)
                        /\ execCount[s] = 1
                        /\ alreadyClaimed[s] >= 1

\* C2: the claim is first-writer-wins. For every action at most one LoadOrStore
\* reported "stored"; every other attempt on it reported "loaded"; the routine
\* was invoked only by the one winning attempt; the registry holds exactly the
\* actions that were won.
C2_FirstWriterWins ==
    /\ \A t \in Tasks :
          /\ firstClaim[t] <= 1
          /\ firstClaim[t] = (IF Attempts(t) > 0 THEN 1 ELSE 0)
          /\ alreadyClaimed[t] = Attempts(t) - firstClaim[t]
          /\ execCount[t] = firstClaim[t]
    /\ executed[PoolMap] = {t \in Tasks : firstClaim[t] = 1}

\* C2 witness: an action attempted from both plans, by two workers, won once
\* and lost at least once.
C2_Witness ==
    /\ workers = 2
    /\ Len(roots) = 2
    /\ \E t \in Tasks : /\ AttemptsIn(1, t) # {}
                        /\ AttemptsIn(2, t) # {}
                        /\ firstClaim[t] = 1
                        /\ alreadyClaimed[t] >= 1

\* C3: depth-attempt ordering. In every plan's claim trace the depths never
\* increase, and when an attempt at some depth has been made, every action of
\* every deeper level of that plan has been attempted already, in the plan's
\* order. For the chain 1 -> 2 -> 3 run from root 1 the trace is 3, 2, 1.
C3_DepthOrder ==
    \A k \in DOMAIN claimTrace :
        LET tr == claimTrace[k]
            r == rootObjs[k]
        IN /\ \A a, b \in DOMAIN tr : a < b => tr[a][1] >= tr[b][1]
           /\ \A b \in DOMAIN tr : \A d \in DOMAIN r.tree :
                  d > tr[b][1] => AttemptedAt(k, d) = r.tree[d]
           /\ (completed[k] = 1 /\ roots[k] = 1 /\ deps[1] = <<2>>
                 /\ deps[2] = <<3>>)
                 => tr = <<(<<2, 3>>), (<<1, 2>>), (<<0, 1>>)>>

\* C3 witness: the chain 1 -> 2 -> 3 has been run from its root.
C3_Witness ==
    /\ deps[1] = <<2>>
    /\ deps[2] = <<3>>
    /\ \E k \in DOMAIN roots : roots[k] = 1 /\ completed[k] = 1

\* C4 as stated: in every reachable state the number of workers ever spawned
\* is 0 or exactly workerCount.
C4_AsStated == spawned \in {0, workers}

\* C4 amended: only one SpawnWorkers call runs the spawning loop; the number of
\* workers spawned never exceeds workerCount, is 0 before the first call, and
\* is exactly workerCount once any SpawnWorkers call has returned (in between,
\* while the loop runs, it is the loop index).
C4_SpawnOnce ==
    /\ spawned <= workers
    /\ Cardinality({c \in Callers : cpc[c] = "spawn"}) <= 1
    /\ spawnCalls = 0 => spawned = 0
    /\ (spawnReturned >= 1 \/ init.done) => spawned = workers
    /\ \A c \in Callers : cpc[c] = "spawn" => spawned = ci[c]
    /\ Cardinality({w \in WorkerIds : wpc[w] # "none"}) = spawned

\* C4 witness: two SpawnWorkers calls have returned on a pool of two workers.
C4_Witness ==
    /\ workers = 2
    /\ spawnReturned >= 2
    /\ spawned = 2

\* C5: idempotent drain-and-shutdown. The queue is closed at most once, no call
\* panics, and after any WaitAndDispose call has returned the pool is in the
\* one final state: queue closed and empty, counter zero, guard set.
C5_DisposeOnce ==
    /\ closeCount <= 1
    /\ fault = "none"
    /\ wg >= 0
    /\ waitReturned >= 1 =>
          /\ closed
          /\ closeCount = 1
          /\ wg = 0
          /\ getRoot = <<>>
          /\ done.done

\* C5 witness: two WaitAndDispose calls have returned on a pool that had plans.
C5_Witness ==
    /\ Len(roots) >= 1
    /\ waitReturned >= 2
    /\ closeCount = 1

\* C6 as stated: an invocation other than the first returns at once, also when
\* made while the first is still waiting for the counter: no invocation is ever
\* held up while another one waits for a counter that is not zero.
C6_AsStated ==
    \A c \in Callers :
        ~(cpc[c] = "done_lock" /\ wg > 0
            /\ \E c2 \in Callers : cpc[c2] = "wg_wait")

\* A step in which a WaitAndDispose call returns without having run the body.
NonFirstReturn ==
    /\ waitReturned' = waitReturned + 1
    /\ ~\E c \in Callers : cpc[c] = "dispose_ret" /\ cpc'[c] = "idle"

\* C6 amended: at most one invocation ever runs the wait-and-close body; every
\* other invocation returns without waiting on the counter and without touching
\* the pool, and returns only once the first has finished: at once when it
\* starts after that, and otherwise held at the sync.Once until then.
C6_NonFirstNoop ==
    /\ [](Cardinality({c \in Callers : cpc[c] \in InBody}) <= 1)
    /\ [](\A c \in Callers : (cpc[c] = "done_lock" /\ ~done.done)
                                 => (ENABLED DoneLock(c) <=> ~done.locked))
    /\ [][NonFirstReturn => (done.done /\ closed
                               /\ UNCHANGED <<poolVars, workerVars>>)]_vars
    /\ [][(waitCalls' # waitCalls /\ done.done)
              => (waitReturned' = waitReturned + 1 /\ UNCHANGED cpc)]_vars

\* C6 witness: an invocation that was held at the sync.Once while the first
\* ran is about to return as a no-op, the first having returned.
C6_Witness ==
    /\ Len(roots) >= 1
    /\ waitReturned = 1
    /\ \E c \in Callers : cpc[c] = "done_lock" /\ done.done

\* C7: the queue is closed only when the counter is zero, every plan has been
\* run to its end and no worker is inside a plan; the call returns only after
\* the close.
C7_ReturnAfterDrain ==
    /\ \A c \in Callers : cpc[c] = "close" => (wg = 0 /\ AllCompleted)
    /\ closed => /\ wg = 0
                 /\ AllCompleted
                 /\ getRoot = <<>>
                 /\ \A w \in WorkerIds : wpc[w] \notin Busy
    /\ \A c \in Callers : cpc[c] = "dispose_ret" => closed
    /\ waitReturned >= 1 => closed

\* C7 witness: a drain of two plans has returned.
C7_Witness ==
    /\ Len(roots) = 2
    /\ workers >= 1
    /\ closed
    /\ waitReturned >= 1
    /\ \A t \in Reachable : execCount[t] = 1

C9_EmptyInput ==
    /\ [](roots = <<>> =>
             /\ wg = 0
             /\ getRoot = <<>>
             /\ \A t \in Tasks : execCount[t] = 0
             /\ \A c \in Callers : cpc[c] = "wg_wait" => ENABLED WgWait(c))
    /\ \A c \in Callers :
          (roots = <<>> /\ cpc[c] \in WaitPcs) ~> (cpc[c] = "idle")

\* C9 witness: no roots, no workers, SpawnWorkers never called, and a
\* WaitAndDispose call has returned.
C9_Witness ==
    /\ roots = <<>>
    /\ workers = 0
    /\ spawnCalls = 0
    /\ waitReturned >= 1

\* C10: with no workers and at least one root nothing is dequeued, the counter
\* stays at the number of roots, the queue is never closed and no
\* WaitAndDispose call ever gets past the wait or returns.
C10_ZeroWorkers ==
    (workers = 0 /\ Len(roots) >= 1) =>
        /\ wg = Len(roots)
        /\ Len(getRoot) = Len(roots)
        /\ ~closed
        /\ ~done.done
        /\ waitReturned = 0
        /\ \A c \in Callers : /\ cpc[c] \notin {"close", "dispose_ret"}
                              /\ cpc[c] = "wg_wait" => ~ENABLED WgWait(c)

\* C10 witness: no workers, a root, SpawnWorkers has returned, and a
\* WaitAndDispose call sits in the wait.
C10_Witness ==
    /\ workers = 0
    /\ Len(roots) >= 1
    /\ spawnReturned >= 1
    /\ \E c \in Callers : cpc[c] = "wg_wait"


\* ------------------------------------------------------------- vocabulary (2)
\* The action whose execute() call worker w is in.
ActOf(w) == ActAt(rootObjs[wroot[w]], wpos[w])

\* Actions whose routine has been invoked and has not returned.
InRoutine == {ActOf(w) : w \in {v \in WorkerIds : wpc[v] \in {"execOnce", "panicked"}}}

Started(t) == execCount[t] >= 1
Returned(t) == Started(t) /\ t \notin InRoutine

Min(a, b) == IF a <= b THEN a ELSE b

\* The actions at the end of the dependency paths of length d from t, in
\* the order of the dependency lists.
RECURSIVE Level(_, _)
Level(t, d) ==
    IF d = 0 THEN <<t>>
    ELSE LET RECURSIVE cat(_)
             cat(k) == IF k > Len(deps[t]) THEN <<>>
                       ELSE Level(deps[t][k], d - 1) \o cat(k + 1)
         IN cat(1)

\* The length of the longest dependency path from t.
RECURSIVE LongestPath(_)
LongestPath(t) ==
    IF deps[t] = <<>> THEN 0
    ELSE LET ls == {LongestPath(u) : u \in DepSet(t)}
         IN 1 + CHOOSE m \in ls : \A n \in ls : n <= m

\* The number of dependency paths from s to t.
RECURSIVE NumPaths(_, _)
NumPaths(s, t) ==
    IF s = t THEN 1
    ELSE SumOver([k \in DOMAIN deps[s] |-> NumPaths(deps[s][k], t)],
                 DOMAIN deps[s])

\* Occurrences of action t in the plan r.
Occurrences(r, t) ==
    SumOver([d \in DOMAIN r.tree |->
                Cardinality({j \in DOMAIN r.tree[d] : r.tree[d][j] = t})],
            DOMAIN r.tree)

\* ------------------------------------------------------------- claims (2)

\* C11: the claim guards initiation, not completion. When an action's routine
\* starts, each of its direct dependencies has been claimed; and a worker whose
\* claim on an action fails moves straight on to the next action of its plan
\* without invoking anything, whether or not the claimed action's routine has
\* returned. So with two workers a dependent can start while its dependency,
\* claimed by the other plan, is still running (the witness).
C11_ClaimIsNotCompletion ==
    /\ [](\A t \in Tasks : Started(t) => DepSet(t) \subseteq MapAt(PoolMap))
    /\ [][\A w \in WorkerIds :
            (/\ wpc[w] = "execute"
             /\ ActOf(w) \in MapAt(PoolMap)
             /\ claimTrace'[wroot[w]] # claimTrace[wroot[w]])
            => /\ execCount' = execCount
               /\ wpos'[w] = NextPos(rootObjs[wroot[w]], wpos[w])
               /\ wpc'[w] \in {"execute", "wg_done"}]_vars

\* C11 witness: worker 1's plan holds A and its dependency B, B was claimed by
\* the other plan's worker and is still running, and A's routine has started.
C11_Witness ==
    /\ workers = 2
    /\ Len(roots) = 2
    /\ roots[1] # roots[2]
    /\ \E w1, w2 \in WorkerIds :
          /\ w1 # w2
          /\ wpc[w1] = "execOnce"
          /\ wpc[w2] = "execOnce"
          /\ ActOf(w2) \in DepSet(ActOf(w1))
          /\ AttemptsIn(wroot[w1], ActOf(w2)) # {}
          /\ ~Returned(ActOf(w2))

\* C12: with one worker the run is topological: whenever an action's routine
\* has been started, the routine of every one of its direct dependencies has
\* returned.
C12_SingleWorkerTopological ==
    workers = 1 =>
        \A t \in Tasks : Started(t) => \A d \in DepSet(t) : Returned(d)

\* C12 witness: one worker has run two plans that share actions, one of them
\* reachable by paths of length 1 and 2.
C12_Witness ==
    /\ workers = 1
    /\ Len(roots) = 2
    /\ AllCompleted
    /\ \E k \in DOMAIN roots :
          \E t \in Tasks : \E d1, d2 \in DOMAIN rootObjs[k].tree :
              /\ d1 # d2
              /\ \E j \in DOMAIN rootObjs[k].tree[d1] : rootObjs[k].tree[d1][j] = t
              /\ \E j \in DOMAIN rootObjs[k].tree[d2] : rootObjs[k].tree[d2][j] = t
    /\ roots[1] # roots[2]
    /\ \A t \in Reachable : Returned(t)

\* C13: plan-sequential, bounded concurrency. A plan is held by at most one
\* worker, a worker holds a plan exactly while it is inside root.exec() or
\* about to count it, a worker takes a new plan only when it holds none and
\* gives one up only at the end of exec(), counting it; the routines running
\* at one time number at most min(workerCount, number of roots).
C13_PlanSequential ==
    /\ [](\A k \in DOMAIN rootObjs :
             Cardinality({w \in WorkerIds : wroot[w] = k}) <= 1)
    /\ [](\A w \in WorkerIds : wroot[w] # 0 <=> wpc[w] \in Busy)
    /\ [](Cardinality({w \in WorkerIds : wpc[w] = "execOnce"})
             <= Min(workers, Len(roots)))
    /\ [][\A w \in WorkerIds :
            wroot'[w] # wroot[w] =>
                IF wroot[w] = 0
                THEN getRoot # <<>> /\ wroot'[w] = Head(getRoot)
                ELSE /\ wroot'[w] = 0
                     /\ wpos[w].i < 0
                     /\ completed'[wroot[w]] = completed[wroot[w]] + 1]_vars

\* C13 witness: two workers, each inside a routine of its own plan.
C13_Witness ==
    /\ workers = 2
    /\ Len(roots) = 2
    /\ wpc[1] = "execOnce"
    /\ wpc[2] = "execOnce"
    /\ wroot[1] # wroot[2]

\* C14: plan construction. The plan of a root has the root alone at depth 0,
\* levels 0..L where L is the longest dependency path from the root, at depth
\* d the ends of the paths of length d in depth-first order, hence one
\* occurrence of an action per path to it; maxDepth = L (0 without
\* dependencies).
C14_PlanConstruction ==
    \A k \in DOMAIN rootObjs :
        LET r == rootObjs[k]
            L == LongestPath(roots[k])
        IN /\ r.maxDepth = L
           /\ DOMAIN r.tree = 0..L
           /\ r.tree[0] = <<roots[k]>>
           /\ \A d \in 0..L : r.tree[d] = Level(roots[k], d)
           /\ \A t \in Tasks :
                 Occurrences(r, t) = (IF t \in ReachFrom({roots[k]})
                                      THEN NumPaths(roots[k], t) ELSE 0)
           /\ deps[roots[k]] = <<>> => r.maxDepth = 0

\* C14 witness: a plan of depth 2 with two actions at depth 1 and an action
\* that occurs at depth 1 and at depth 2.
C14_Witness ==
    \E k \in DOMAIN rootObjs :
        LET r == rootObjs[k]
        IN /\ r.maxDepth = 2
           /\ Len(r.tree[1]) = 2
           /\ \E t \in Tasks : /\ Occurrences(r, t) = 2
                               /\ \E j \in DOMAIN r.tree[1] : r.tree[1][j] = t
                               /\ \E j \in DOMAIN r.tree[2] : r.tree[2][j] = t

\* Times plan k occurs in the channel.
InQueue(k) == Cardinality({j \in DOMAIN getRoot : getRoot[j] = k})

\* C15: worker exit. A worker has left its loop only if the queue is closed
\* and empty, which a WaitAndDispose call brought about; the queue is empty
\* when it is closed; once it is closed every spawned worker eventually
\* exits; and while WaitAndDispose has not been called no worker has exited
\* and a worker at the empty queue cannot move.
C15_WorkerExit ==
    /\ [](\A w \in WorkerIds : wpc[w] = "exit" =>
             (closed /\ getRoot = <<>> /\ closeCount >= 1 /\ waitCalls >= 1))
    /\ [](closed => getRoot = <<>>)
    /\ [][(closed' /\ ~closed) => (getRoot = <<>> /\ getRoot' = <<>>)]_vars
    /\ [](waitCalls = 0 =>
             \A w \in WorkerIds :
                 /\ wpc[w] # "exit"
                 /\ (wpc[w] = "recv" /\ getRoot = <<>>) => ~ENABLED WorkerStep(w))
    /\ \A w \in WorkerIds : (closed /\ wpc[w] # "none") ~> (wpc[w] = "exit")

\* C15 witness: two workers ran the plans, the queue was closed, both exited.
C15_Witness ==
    /\ workers = 2
    /\ Len(roots) >= 1
    /\ closed
    /\ \A w \in WorkerIds : wpc[w] = "exit"

C17_RegistryFrame ==
    /\ []({t \in Tasks : Started(t)} \subseteq MapAt(PoolMap))
    /\ [](MapAt(PoolMap) \subseteq Reachable)
    /\ [](DOMAIN executed = {PoolMap})
    /\ [][executed[PoolMap] \subseteq executed'[PoolMap]]_vars
    /\ [][alreadyClaimed' # alreadyClaimed =>
             /\ UNCHANGED <<executed, execCount, firstClaim>>
             /\ \A w \in WorkerIds : wpc'[w] = "execOnce" => wpc[w] = "execOnce"]_vars

\* C17 witness: a claim has failed while another action is still unclaimed.
C17_Witness ==
    /\ \E t \in Tasks : alreadyClaimed[t] >= 1
    /\ MapAt(PoolMap) # {}
    /\ MapAt(PoolMap) # Reachable

C19_Construction ==
    /\ ChanCap(Len(roots)) = Len(roots)
    /\ Len(getRoot) <= ChanCap(Len(roots))
    /\ DOMAIN rootObjs = 1..Len(roots)
    /\ \A k \in DOMAIN rootObjs : /\ rootObjs[k].tree[0] = <<roots[k]>>
                                  /\ rootObjs[k].executed = PoolMap
                                  /\ InQueue(k) <= 1
    /\ spawned = 0 => getRoot = [k \in 1..Len(roots) |-> k]

\* C19 witness: a pool of two roots, no worker spawned, both plans queued.
C19_Witness ==
    /\ Len(roots) = 2
    /\ spawned = 0
    /\ Len(getRoot) = 2
    /\ wg = 2

\* C20: fatal fault. A panic of a routine is the program's panic: the worker
\* does not go on, its plan is not counted and nothing more of it is
\* attempted, the routine is not invoked again, and no step of any thread
\* follows (the drain has not returned and never will).
C20_FatalFault ==
    /\ [](\A w \in WorkerIds : wpc[w] = "panicked" =>
             /\ fault = "panic in act.execOnce"
             /\ \A v \in WorkerIds \ {w} : wpc[v] # "panicked"
             /\ completed[wroot[w]] = 0
             /\ wg >= 1
             /\ ~closed
             /\ waitReturned = 0
             /\ execCount[ActOf(w)] = 1
             /\ claimTrace[wroot[w]][Len(claimTrace[wroot[w]])]
                   = <<wpos[w].i, ActOf(w)>>)
    /\ [](fault # "none" => \E w \in WorkerIds : wpc[w] = "panicked")
    /\ [](\A t \in Tasks : execCount[t] <= 1)
    /\ [][fault = "none"]_vars

\* C20 witness: a routine panicked with actions of its plan still to come,
\* while the other worker was inside a routine.
C20_Witness ==
    /\ fault = "panic in act.execOnce"
    /\ \E w, v \in WorkerIds :
          /\ wpc[w] = "panicked"
          /\ wpos[w].i > 0
          /\ wpc[v] = "execOnce"

=============================================================================
